---- MODULE Spec2Model ----
(***************************************************************************)
(* The stdin/stdout JSON protocol of the corynth plugin binaries.          *)
(*                                                                         *)
(* One plugin binary is chosen and invoked twice (with the same command    *)
(* line, except for the file plugin); each invocation is its own process   *)
(* with its own stdin, stdout and exit code, and the two share the         *)
(* filesystem.  Every process walks through the steps of its main():       *)
(* argument check, mode switch, stdin read, JSON decode, Execute, the      *)
(* handler's call to its external collaborator, and the final Encode.      *)
(*                                                                         *)
(* Plugins modelled: calculator, http, reporting, llm, terraform, slack,   *)
(* aws, ansible, file (JSON protocol) and teams (gRPC main).  The main()   *)
(* of official/template, aws, sql, ansible, file and kubernetes is         *)
(* textually the main() of calculator ("standard" below).                  *)
(*                                                                         *)
(* SpecKubectl is the kubernetes plugin's runKubectlCommand together with  *)
(* its kubectl child and the two pipes between them.                       *)
(***************************************************************************)
EXTENDS Integers, Sequences, FiniteSets, TLC

VARIABLES plugin, world, token, argv, stdin, pc, inputData, params, result,
          pending, stdout, exitCode, stdinReads, handlerCalls, contacted, files

\* runKubectlCommand of the kubernetes plugin and its kubectl child: where the
\* function is, the writes kubectl still has to make, what the two pipes
\* hold, what the function has read from them, and whether kubectl has exited.
VARIABLES cmd, writes, outPipe, errPipe, stdoutBytes, stderrBytes, kubectlExited

kube == <<cmd, writes, outPipe, errPipe, stdoutBytes, stderrBytes, kubectlExited>>

vars == <<plugin, world, token, argv, stdin, pc, inputData, params, result,
          pending, stdout, exitCode, stdinReads, handlerCalls, contacted, files, kube>>

\* The two invocations of the binary that are observed side by side.
Invocations == {1, 2}

\* Largest chart width and largest chart data value sent in a request.
MaxWidth == 2
MaxVal == 1

\* The capacity of a pipe and the most writes kubectl makes, in blocks of
\* output.
PipeCap == 1
MaxWrites == 4

(***************************************************************************)
(* JSON values (Go: interface{} holding string, float64, bool, map, nil).  *)
(***************************************************************************)
NoFields == [k \in {} |-> 0]

JStr(s) == [t |-> "string", s |-> s, n |-> 0, b |-> FALSE, o |-> NoFields]
JNum(n) == [t |-> "number", s |-> "", n |-> n, b |-> FALSE, o |-> NoFields]
JBool(b) == [t |-> "boolean", s |-> "", n |-> 0, b |-> b, o |-> NoFields]
JObj(o) == [t |-> "object", s |-> "", n |-> 0, b |-> FALSE, o |-> o]

\* A Go map[string]interface{}: nil or a mapping from keys to JSON values.
NilMap == [nil |-> TRUE, m |-> NoFields]
MakeMap(m) == [nil |-> FALSE, m |-> m]

Has(p, k) == k \in DOMAIN p.m

\* v, ok := p[k].(string)    (also the read of a nil map: ok is false)
IsString(p, k) == Has(p, k) /\ p.m[k].t = "string"
IsNumber(p, k) == Has(p, k) /\ p.m[k].t = "number"
IsBool(p, k) == Has(p, k) /\ p.m[k].t = "boolean"
IsObject(p, k) == Has(p, k) /\ p.m[k].t = "object"

(***************************************************************************)
(* What the orchestrator (or a shell) puts on stdin.  kind is the shape of *)
(* the bytes; obj is the object when the bytes are a JSON object.          *)
(***************************************************************************)
Doc(kind, obj) == [kind |-> kind, obj |-> obj]

Empty == Doc("empty", NoFields)
Blank == Doc("whitespace", NoFields)
Garbage == Doc("garbage", NoFields)
NullDoc == Doc("null", NoFields)
NumberDoc == Doc("number", NoFields)
ArrayDoc == Doc("array", NoFields)
ObjectDoc(obj) == Doc("object", obj)
\* A stdin that stays open and delivers nothing: a terminal, or a pipe whose
\* writer neither writes nor closes it.
Open == Doc("open", NoFields)

CommonDocs == {Empty, Blank, Garbage, NullDoc, NumberDoc, ArrayDoc, ObjectDoc(NoFields), Open}

Widths == (0 - 1) .. MaxWidth
Vals == (0 - 1) .. MaxVal

ChartDocs ==
    {ObjectDoc([data |-> JObj([a |-> JNum(v)]), width |-> JNum(w)]) : v \in Vals, w \in Widths}
    \cup {ObjectDoc([data |-> JObj([a |-> JNum(v)])]) : v \in Vals}
    \cup {ObjectDoc([data |-> JObj([a |-> JStr("x")])]),
          ObjectDoc([data |-> JObj([a |-> JNum(MaxVal), b |-> JNum(0 - 1)])]),
          ObjectDoc([data |-> JObj(NoFields)]),
          ObjectDoc([data |-> JStr("x")]),
          ObjectDoc([width |-> JNum(MaxWidth)])}

PluginDocs(pl) ==
    CASE pl = "calculator" ->
           {ObjectDoc([expression |-> JStr("2 + 2 * 3")]),
            ObjectDoc([expression |-> JStr("7 / 0")]),
            ObjectDoc([expression |-> JStr("")]),
            ObjectDoc([expression |-> JNum(42)]),
            ObjectDoc([precision |-> JNum(0)]),
            ObjectDoc([expression |-> JStr("2 + 2 * 3"), precision |-> JStr("2")]),
            ObjectDoc([expression |-> JStr("2 + 2"), precision |-> JNum(0)]),
            ObjectDoc([expression |-> JStr("9 - 7 % 4 * 2")]),
            ObjectDoc([expression |-> JStr("1 / 8")]),
            ObjectDoc([expression |-> JStr("-(2 + pi)")]),
            ObjectDoc([expression |-> JStr("sqrt(4)")]),
            ObjectDoc([expression |-> JStr("x + 1")]),
            ObjectDoc([expression |-> JStr("\"a\" + 1")]),
            ObjectDoc([expression |-> JStr("2 < 3")]),
            ObjectDoc([expression |-> JStr("1 << 2")]),
            ObjectDoc([expression |-> JStr("6 & 3")]),
            ObjectDoc([expression |-> JStr("1e308 * 10")]),
            ObjectDoc([expression |-> JStr("2 + 2"), precision |-> JNum(400)])}
      [] pl = "http" ->
           {ObjectDoc([url |-> JStr("http://host/")]),
            ObjectDoc([url |-> JStr("")]),
            ObjectDoc([url |-> JNum(42)]),
            ObjectDoc([timeout |-> JNum(5)])}
      [] pl = "reporting" -> ChartDocs
      [] pl = "llm" ->
           {ObjectDoc([prompt |-> JStr("hi")]),
            ObjectDoc([model |-> JStr("gpt-4")])}
      [] pl = "terraform" ->
           {ObjectDoc([upgrade |-> JBool(TRUE)]),
            ObjectDoc([working_dir |-> JStr("/tf")])}
      [] pl = "slack" ->
           {ObjectDoc([channel |-> JStr("#ops"), text |-> JStr("hi")]),
            ObjectDoc([text |-> JStr("hi")]),
            ObjectDoc([channel |-> JStr("#ops")])}
      [] pl = "aws" ->
           {ObjectDoc([function_name |-> JStr("f")]),
            ObjectDoc([function_name |-> JStr("g")])}
      [] pl = "ansible" ->
           {ObjectDoc([hosts |-> JStr("all"), module |-> JStr("ping")]),
            ObjectDoc([hosts |-> JStr("all"), module |-> JStr("shell"),
                       args |-> JStr("echo hi")]),
            ObjectDoc([hosts |-> JStr("all; id"), module |-> JStr("ping")]),
            ObjectDoc([module |-> JStr("ping")])}
      [] pl = "file" ->
           {ObjectDoc([path |-> JStr("/data/p")]),
            ObjectDoc([path |-> JStr("/data/p"), content |-> JStr("a")]),
            ObjectDoc([path |-> JStr("/data/p"), content |-> JStr("b"),
                       append |-> JBool(TRUE)]),
            ObjectDoc([path |-> JStr("/data"), content |-> JStr("a")]),
            ObjectDoc([source |-> JStr("/data/p"), destination |-> JStr("/new/q")]),
            ObjectDoc([source |-> JStr("/data/p"), destination |-> JStr("/new/q"),
                       create_dirs |-> JBool(TRUE)])}
      [] pl = "teams" -> {}

StdinDocs(pl) == CommonDocs \cup PluginDocs(pl)

(***************************************************************************)
(* encoding/json and bytes, as the mains use them.                         *)
(***************************************************************************)
\* json.Unmarshal(data, &params) with params a nil map: the error text ("" for
\* a nil error) and the value params holds afterwards.  JSON null is accepted
\* and leaves the map nil.
Unmarshal(doc) ==
    CASE doc.kind \in {"empty", "whitespace"} ->
           [err |-> "unexpected end of JSON input", val |-> NilMap]
      [] doc.kind = "garbage" ->
           [err |-> "invalid character 'o' in literal null (expecting 'u')", val |-> NilMap]
      [] doc.kind = "null" -> [err |-> "", val |-> NilMap]
      [] doc.kind \in {"number", "array"} ->
           [err |-> "json: cannot unmarshal " \o doc.kind
                      \o " into Go value of type map[string]interface {}",
            val |-> NilMap]
      [] doc.kind = "object" -> [err |-> "", val |-> MakeMap(doc.obj)]

\* json.NewDecoder(os.Stdin).Decode(&params): end of input is io.EOF.
Decode(doc) ==
    IF doc.kind \in {"empty", "whitespace"}
    THEN [err |-> "EOF", val |-> NilMap]
    ELSE Unmarshal(doc)

\* len(inputData)
ByteLen(doc) == IF doc.kind = "empty" THEN 0 ELSE 1

\* bytes.TrimSpace(input)
TrimSpace(doc) == IF doc.kind = "whitespace" THEN Empty ELSE doc

ErrorEnvelope(msg) == [error |-> msg]

(***************************************************************************)
(* The static tables of each plugin.                                       *)
(***************************************************************************)
Plugins == {"calculator", "http", "reporting", "llm", "terraform", "slack",
            "aws", "ansible", "file", "teams"}

GetMetadata(pl) ==
    CASE pl = "calculator" ->
           [name |-> "calculator", version |-> "1.0.0",
            description |-> "Mathematical calculations with safe expression evaluation",
            author |-> "Corynth Team",
            tags |-> <<"math", "calculation", "utility", "ast">>]
      [] pl = "http" ->
           [name |-> "http", version |-> "1.0.0",
            description |-> "HTTP client for REST API calls and web requests",
            author |-> "Corynth Team",
            tags |-> <<"http", "web", "api", "rest">>]
      [] pl = "reporting" ->
           [name |-> "reporting", version |-> "1.0.0",
            description |-> "Generate formatted reports with tables, charts, and multiple output formats",
            author |-> "Corynth Team",
            tags |-> <<"reporting", "pdf", "markdown", "tables", "documentation", "output">>]
      [] pl = "llm" ->
           [name |-> "llm", version |-> "1.0.0",
            description |-> "Large Language Model integration (OpenAI, Ollama)",
            author |-> "Corynth Team",
            tags |-> <<"llm", "ai", "gpt", "openai", "ollama">>]
      [] pl = "terraform" ->
           [name |-> "terraform", version |-> "1.0.0",
            description |-> "Terraform Infrastructure as Code operations",
            author |-> "Corynth Team",
            tags |-> <<"terraform", "iac", "infrastructure", "cloud", "provisioning">>]
      [] pl = "slack" ->
           [name |-> "slack", version |-> "1.0.0",
            description |-> "Slack workspace messaging and notifications",
            author |-> "Corynth Team",
            tags |-> <<"slack", "messaging", "notifications">>]
      [] pl = "aws" ->
           [name |-> "aws", version |-> "1.0.0",
            description |-> "Amazon Web Services cloud operations and resource management",
            author |-> "Corynth Team",
            tags |-> <<"aws", "cloud", "ec2", "s3", "lambda", "vpc", "iam", "cloud-native">>]
      [] pl = "ansible" ->
           [name |-> "ansible", version |-> "1.0.0",
            description |-> "Ansible configuration management and automation",
            author |-> "Corynth Team",
            tags |-> <<"ansible", "configuration", "automation", "playbook">>]
      [] pl = "file" ->
           [name |-> "file", version |-> "1.0.0",
            description |-> "File system operations (read, write, copy, move)",
            author |-> "Corynth Team",
            tags |-> <<"file", "filesystem", "io">>]
      [] pl = "teams" ->
           [name |-> "teams", version |-> "1.0.0",
            description |-> "Microsoft Teams integration for sending messages, cards, and notifications via webhooks",
            author |-> "Corynth Team",
            tags |-> <<"communication", "notifications", "microsoft", "collaboration">>,
            license |-> "MIT"]

\* One input of an action spec.  def is the declared default; hasDef tells
\* whether one is declared.
Input(type, required, hasDef, def) ==
    [type |-> type, required |-> required, hasDef |-> hasDef, def |-> def]
NoDefault == JStr("")

\* The action table, restricted to the actions whose handlers are modelled:
\* action name -> input name -> spec.  Numbers are integers here; the llm
\* temperature default 0.7 is carried as its integer part.
GetActions(pl) ==
    CASE pl = "calculator" ->
           [calculate |->
              [expression |-> Input("string", TRUE, FALSE, NoDefault),
               precision |-> Input("number", FALSE, TRUE, JNum(2))]]
      [] pl = "http" ->
           [get |->
              [url |-> Input("string", TRUE, FALSE, NoDefault),
               headers |-> Input("object", FALSE, FALSE, NoDefault),
               timeout |-> Input("number", FALSE, TRUE, JNum(30)),
               auth |-> Input("object", FALSE, FALSE, NoDefault)]]
      [] pl = "reporting" ->
           [create_chart |->
              [data |-> Input("object", TRUE, FALSE, NoDefault),
               type |-> Input("string", FALSE, TRUE, JStr("bar")),
               title |-> Input("string", FALSE, FALSE, NoDefault),
               width |-> Input("number", FALSE, TRUE, JNum(60))]]
      [] pl = "llm" ->
           [generate |->
              [prompt |-> Input("string", TRUE, FALSE, NoDefault),
               model |-> Input("string", FALSE, TRUE, JStr("gpt-3.5-turbo")),
               max_tokens |-> Input("number", FALSE, TRUE, JNum(150)),
               temperature |-> Input("number", FALSE, TRUE, JNum(0))]]
      [] pl = "terraform" ->
           [init |->
              [working_dir |-> Input("string", FALSE, FALSE, NoDefault),
               upgrade |-> Input("boolean", FALSE, TRUE, JBool(FALSE))]]
      [] pl = "slack" ->
           [message |->
              [channel |-> Input("string", TRUE, FALSE, NoDefault),
               text |-> Input("string", TRUE, FALSE, NoDefault),
               username |-> Input("string", FALSE, FALSE, NoDefault),
               icon_emoji |-> Input("string", FALSE, FALSE, NoDefault)]]
      [] pl = "aws" ->
           [lambda_invoke |->
              [function_name |-> Input("string", TRUE, FALSE, NoDefault),
               payload |-> Input("object", FALSE, FALSE, NoDefault),
               invocation_type |-> Input("string", FALSE, TRUE, JStr("RequestResponse")),
               region |-> Input("string", FALSE, FALSE, NoDefault)]]
      [] pl = "ansible" ->
           [ad_hoc |->
              [hosts |-> Input("string", TRUE, FALSE, NoDefault),
               module |-> Input("string", TRUE, FALSE, NoDefault),
               args |-> Input("string", FALSE, FALSE, NoDefault),
               inventory |-> Input("string", FALSE, FALSE, NoDefault)]]
      [] pl = "file" ->
           [read |->
              [path |-> Input("string", TRUE, FALSE, NoDefault)],
            write |->
              [path |-> Input("string", TRUE, FALSE, NoDefault),
               content |-> Input("string", TRUE, FALSE, NoDefault),
               create_dirs |-> Input("boolean", FALSE, TRUE, JBool(FALSE)),
               append |-> Input("boolean", FALSE, TRUE, JBool(FALSE))],
            copy |->
              [source |-> Input("string", TRUE, FALSE, NoDefault),
               destination |-> Input("string", TRUE, FALSE, NoDefault),
               create_dirs |-> Input("boolean", FALSE, TRUE, JBool(FALSE))],
            move |->
              [source |-> Input("string", TRUE, FALSE, NoDefault),
               destination |-> Input("string", TRUE, FALSE, NoDefault),
               create_dirs |-> Input("boolean", FALSE, TRUE, JBool(FALSE))]]
      \* the gRPC main dispatches no action from its command line
      [] pl = "teams" -> NoFields

Registered(pl) == DOMAIN GetActions(pl)

(***************************************************************************)
(* What a handler does up to its first call to the external collaborator:  *)
(*   Return(env)  it returns the envelope env (a Go error return is        *)
(*                Fail(msg), which main wraps into {"error": msg});        *)
(*   Panic        a run-time panic is raised and nothing recovers it;      *)
(*   Call(req)    it issues the request req and waits for the answer.      *)
(***************************************************************************)
Return(env) == [kind |-> "return", env |-> env, req |-> NoFields]
Fail(msg) == [kind |-> "error", env |-> ErrorEnvelope(msg), req |-> NoFields]
Panic == [kind |-> "panic", env |-> NoFields, req |-> NoFields]
Call(req) == [kind |-> "call", env |-> NoFields, req |-> req]

(***************************************************************************)
(* calculator                                                              *)
(***************************************************************************)
Lit(n) == [node |-> "BasicLit", kind |-> "INT", val |-> n]
FloatLit(v) == [node |-> "BasicLit", kind |-> "FLOAT", val |-> v]
StringLit(s) == [node |-> "BasicLit", kind |-> "STRING", val |-> 0]
Ident(name) == [node |-> "Ident", name |-> name]
Paren(x) == [node |-> "ParenExpr", x |-> x]
Unary(op, x) == [node |-> "UnaryExpr", op |-> op, x |-> x]
Bin(op, x, y) == [node |-> "BinaryExpr", op |-> op, x |-> x, y |-> y]
CallExpr(fun, arg) == [node |-> "CallExpr", fun |-> fun, arg |-> arg]
BadExpr == [node |-> "BadExpr"]

\* A float64 is counted in thousandths: Float(8) is 8.0 and Float(1) \div 8 is
\* 0.125.  Huge is a finite float64 at the top of the range, the literal
\* 1e308; Inf and 0 - Inf are the infinities and NaN is not-a-number.
Float(n) == n * 1000
Huge == 1000000000
Inf == 1000000001
NaN == 1000000002
Abs(v) == IF v < 0 THEN 0 - v ELSE v
Sign(v) == IF v < 0 THEN 0 - 1 ELSE 1
IsNaN(v) == v = NaN
IsInf(v) == Abs(v) = Inf
IsHuge(v) == Abs(v) = Huge
IsFinite(v) == ~IsNaN(v) /\ ~IsInf(v)
\* math.Pi and math.E, to the thousandth
Pi == 3142
E == 2718

\* The tokens go/scanner finds in the expression strings of the requests.
Num(n) == [tok |-> "INT", val |-> n, op |-> ""]
Flt(v) == [tok |-> "FLOAT", val |-> v, op |-> ""]
Str(s) == [tok |-> "STRING", val |-> 0, op |-> s]
Word(name) == [tok |-> "IDENT", val |-> 0, op |-> name]
Op(o) == [tok |-> "OP", val |-> 0, op |-> o]
LParen == [tok |-> "LPAREN", val |-> 0, op |-> "("]
RParen == [tok |-> "RPAREN", val |-> 0, op |-> ")"]
Tokens(expr) ==
    CASE expr = "2 + 2 * 3" -> <<Num(2), Op("+"), Num(2), Op("*"), Num(3)>>
      [] expr = "2 + 2" -> <<Num(2), Op("+"), Num(2)>>
      [] expr = "9 - 7 % 4 * 2" ->
           <<Num(9), Op("-"), Num(7), Op("%"), Num(4), Op("*"), Num(2)>>
      [] expr = "1 / 8" -> <<Num(1), Op("/"), Num(8)>>
      [] expr = "7 / 0" -> <<Num(7), Op("/"), Num(0)>>
      [] expr = "-(2 + pi)" -> <<Op("-"), LParen, Num(2), Op("+"), Word("pi"), RParen>>
      [] expr = "sqrt(4)" -> <<Word("sqrt"), LParen, Num(4), RParen>>
      [] expr = "x + 1" -> <<Word("x"), Op("+"), Num(1)>>
      [] expr = "\"a\" + 1" -> <<Str("a"), Op("+"), Num(1)>>
      [] expr = "2 < 3" -> <<Num(2), Op("<"), Num(3)>>
      [] expr = "1 << 2" -> <<Num(1), Op("<<"), Num(2)>>
      [] expr = "6 & 3" -> <<Num(6), Op("&"), Num(3)>>
      [] expr = "1e308 * 10" -> <<Flt(Huge), Op("*"), Num(10)>>
      [] OTHER -> <<>>

\* Every binary operator binding alike.
PrecedenceFlat(o) == 4

\* token.Precedence of the binary operators
Precedence(o) ==
    CASE o \in {"*", "/", "%", "<<", ">>", "&", "&^"} -> 5
      [] o \in {"+", "-", "|", "^"} -> 4
      [] o \in {"==", "!=", "<", "<=", ">", ">="} -> 3
      [] o = "&&" -> 2
      [] o = "||" -> 1
      [] OTHER -> 0

RECURSIVE parseBinaryExpr(_, _, _)
RECURSIVE parseOperators(_, _, _)
RECURSIVE parseUnaryExpr(_, _)

\* go/parser's parseOperand: a literal, an identifier or a parenthesised
\* expression.
parseOperand(toks, pos) ==
    CASE toks[pos].tok = "INT" -> [x |-> Lit(toks[pos].val), pos |-> pos + 1]
      [] toks[pos].tok = "FLOAT" -> [x |-> FloatLit(toks[pos].val), pos |-> pos + 1]
      [] toks[pos].tok = "STRING" -> [x |-> StringLit(toks[pos].op), pos |-> pos + 1]
      [] toks[pos].tok = "IDENT" -> [x |-> Ident(toks[pos].op), pos |-> pos + 1]
      [] toks[pos].tok = "LPAREN" ->
           LET inner == parseBinaryExpr(toks, pos + 1, 1)
           IN  [x |-> Paren(inner.x), pos |-> inner.pos + 1]

\* go/parser's parsePrimaryExpr: an operand, called if "(" follows it.
parsePrimaryExpr(toks, pos) ==
    LET x == parseOperand(toks, pos)
    IN  IF x.pos <= Len(toks) /\ toks[x.pos].tok = "LPAREN"
        THEN LET arg == parseBinaryExpr(toks, x.pos + 1, 1)
             IN  [x |-> CallExpr(x.x, arg.x), pos |-> arg.pos + 1]
        ELSE x

\* go/parser's parseUnaryExpr: the unary operators, then a primary expression.
parseUnaryExpr(toks, pos) ==
    IF toks[pos].tok = "OP" /\ toks[pos].op \in {"+", "-", "!", "^", "&"}
    THEN LET x == parseUnaryExpr(toks, pos + 1)
         IN  [x |-> Unary(toks[pos].op, x.x), pos |-> x.pos]
    ELSE parsePrimaryExpr(toks, pos)

\* go/parser's parseBinaryExpr: an operand, then every operator that binds at
\* least as tightly as prec1, each with a right operand that binds tighter.
parseBinaryExpr(toks, pos, prec1) ==
    parseOperators(toks, parseUnaryExpr(toks, pos), prec1)

parseOperators(toks, left, prec1) ==
    IF \/ left.pos > Len(toks)
       \/ toks[left.pos].tok # "OP"
       \/ Precedence(toks[left.pos].op) < prec1
    THEN left
    ELSE LET o == toks[left.pos].op
             right == parseBinaryExpr(toks, left.pos + 1, Precedence(o) + 1)
         IN  parseOperators(toks, [x |-> Bin(o, left.x, right.x), pos |-> right.pos], prec1)

\* go/parser.ParseExpr; a string that is no expression gives a BadExpr.
ParseExpr(expr) ==
    IF Tokens(expr) = <<>> THEN BadExpr ELSE parseBinaryExpr(Tokens(expr), 1, 1).x

Value(v) == [err |-> "", val |-> v]
EvalError(msg) == [err |-> msg, val |-> 0]

\* float64 addition
FAdd(x, y) ==
    CASE IsNaN(x) \/ IsNaN(y) -> NaN
      [] IsInf(x) /\ ~IsNaN(y) -> IF y = 0 - x THEN NaN ELSE x
      [] IsFinite(x) /\ IsInf(y) -> y
      [] IsHuge(x) /\ IsFinite(y) ->
           IF y = x THEN Sign(x) * Inf ELSE IF y = 0 - x THEN 0 ELSE x
      [] IsFinite(x) /\ ~IsHuge(x) /\ IsHuge(y) -> y
      [] OTHER -> x + y

\* float64 negation
FNeg(x) == IF IsNaN(x) THEN NaN ELSE 0 - x

\* float64 multiplication; a product beyond the range is an infinity.  Huge
\* is multiplied by whole numbers only.
FMul(x, y) ==
    CASE IsNaN(x) \/ IsNaN(y) -> NaN
      [] (IsInf(x) /\ ~IsNaN(y)) \/ (IsInf(y) /\ ~IsNaN(x)) ->
           IF x = 0 \/ y = 0 THEN NaN ELSE Sign(x) * Sign(y) * Inf
      [] IsHuge(x) /\ IsHuge(y) -> Sign(x) * Sign(y) * Inf
      [] IsHuge(x) /\ Abs(y) < Huge /\ y % Float(1) = 0 ->
           IF y = 0 THEN 0
           ELSE IF Abs(y) = Float(1) THEN Sign(y) * x ELSE Sign(x) * Sign(y) * Inf
      [] IsHuge(y) /\ Abs(x) < Huge /\ x % Float(1) = 0 ->
           IF x = 0 THEN 0
           ELSE IF Abs(x) = Float(1) THEN Sign(x) * y ELSE Sign(x) * Sign(y) * Inf
      [] Abs(x) < Huge /\ Abs(y) < Huge -> (x * y) \div Float(1)

\* float64 division by a divisor other than 0
FQuo(x, y) ==
    CASE IsNaN(x) \/ IsNaN(y) -> NaN
      [] IsInf(x) /\ ~IsNaN(y) -> IF IsInf(y) THEN NaN ELSE Sign(x) * Sign(y) * Inf
      [] IsFinite(x) /\ IsInf(y) -> 0
      [] IsHuge(x) /\ IsHuge(y) -> Sign(x) * Sign(y) * Float(1)
      [] Abs(x) < Huge /\ IsHuge(y) -> 0
      [] IsHuge(x) /\ Abs(y) = Float(1) -> Sign(y) * x
      [] Abs(x) < Huge /\ Abs(y) < Huge ->
           Sign(x) * Sign(y) * ((Abs(x) * Float(1)) \div Abs(y))

\* math.Mod by a divisor other than 0
FMod(x, y) ==
    CASE IsNaN(x) \/ IsNaN(y) \/ IsInf(x) -> NaN
      [] IsFinite(x) /\ IsInf(y) -> x
      [] Abs(x) < Huge /\ IsHuge(y) -> x
      [] IsHuge(x) /\ IsHuge(y) -> 0
      [] Abs(x) < Huge /\ Abs(y) < Huge -> Sign(x) * (Abs(x) % Abs(y))

RECURSIVE evalNode(_)

evalBinaryExpr(expr) ==
    LET left == evalNode(expr.x)
        right == evalNode(expr.y)
    IN  IF left.err # "" THEN left
        ELSE IF right.err # "" THEN right
        ELSE CASE expr.op = "+" -> Value(FAdd(left.val, right.val))
               [] expr.op = "-" -> Value(FAdd(left.val, FNeg(right.val)))
               [] expr.op = "*" -> Value(FMul(left.val, right.val))
               [] expr.op = "/" -> IF right.val = 0
                                   THEN EvalError("division by zero")
                                   ELSE Value(FQuo(left.val, right.val))
               [] expr.op = "%" -> IF right.val = 0
                                   THEN EvalError("modulo by zero")
                                   ELSE Value(FMod(left.val, right.val))
               [] OTHER -> EvalError("unsupported binary operator: " \o expr.op)

evalUnaryExpr(expr) ==
    LET operand == evalNode(expr.x)
    IN  IF operand.err # "" THEN operand
        ELSE CASE expr.op = "+" -> operand
               [] expr.op = "-" -> Value(FNeg(operand.val))
               [] OTHER -> EvalError("unsupported unary operator: " \o expr.op)

\* Every literal taken for a number, a string for 0.
evalBasicLitAnyKind(lit) == Value(IF lit.kind = "INT" THEN Float(lit.val) ELSE lit.val)

evalBasicLit(lit) ==
    CASE lit.kind = "INT" -> Value(Float(lit.val))
      [] lit.kind = "FLOAT" -> Value(lit.val)
      [] OTHER -> EvalError("unsupported literal type: " \o lit.kind)

evalNode(node) ==
    CASE node.node = "BinaryExpr" -> evalBinaryExpr(node)
      [] node.node = "UnaryExpr" -> evalUnaryExpr(node)
      [] node.node = "ParenExpr" -> evalNode(node.x)
      [] node.node = "BasicLit" -> evalBasicLit(node)
      [] node.node = "Ident" ->
           CASE node.name = "pi" -> Value(Pi)
             [] node.name = "e" -> Value(E)
             [] OTHER -> EvalError("undefined identifier: " \o node.name)
      [] OTHER -> EvalError("unsupported expression type: *ast." \o node.node)

evaluateExpression(expr) ==
    IF ParseExpr(expr) = BadExpr
    THEN EvalError("syntax error")
    ELSE evalNode(ParseExpr(expr))

\* math.Pow(10, n): an infinity beyond the range of float64
RECURSIVE Pow10(_)
Pow10(n) == IF n > 308 THEN Inf ELSE IF n = 0 THEN 1 ELSE 10 * Pow10(n - 1)

\* math.Round(v * multiplier) / multiplier: halves go away from zero.  An
\* infinite multiplier makes the product infinite or NaN and the quotient NaN;
\* an infinite or NaN value stays what it is; Huge overflows when scaled.
Round(v, multiplier) ==
    CASE multiplier = Inf \/ IsNaN(v) -> NaN
      [] multiplier # Inf /\ IsInf(v) -> v
      [] multiplier # Inf /\ IsHuge(v) -> IF multiplier > 1 THEN Sign(v) * Inf ELSE v
      [] OTHER ->
           LET units == Sign(v) * ((2 * Abs(v) * multiplier + Float(1)) \div (2 * Float(1)))
           IN  (units * Float(1)) \div multiplier

calculate(p) ==
    IF ~IsString(p, "expression") \/ p.m["expression"].s = ""
    THEN Return(ErrorEnvelope("expression parameter is required"))
    ELSE LET expression == p.m["expression"].s
             prec == IF IsNumber(p, "precision") THEN p.m["precision"].n ELSE 2
             precision == IF prec < 0 THEN 0 ELSE prec
             r == evaluateExpression(expression)
         IN  IF r.err # ""
             THEN Return([error |-> "Invalid expression: " \o r.err,
                          expression |-> expression])
             ELSE Return([result |-> Round(r.val, Pow10(precision)),
                          expression |-> expression])

(***************************************************************************)
(* http                                                                    *)
(***************************************************************************)
makeGetRequest(p) ==
    IF ~IsString(p, "url") \/ p.m["url"].s = ""
    THEN Return(ErrorEnvelope("url is required"))
    ELSE Call([method |-> "GET", url |-> p.m["url"].s])

(***************************************************************************)
(* reporting                                                               *)
(***************************************************************************)
\* sort.Strings over the labels that occur in chart data.
SortedLabels == <<"a", "b">>

convertToFloat(v) ==
    IF v.t = "number" THEN [ok |-> TRUE, val |-> v.n] ELSE [ok |-> FALSE, val |-> 0]

\* The scaling maximum: the largest convertible value above 0, and 1 if none.
MaxOf(data) ==
    LET pos == {convertToFloat(data[k]).val : k \in {l \in DOMAIN data :
                    convertToFloat(data[l]).ok /\ convertToFloat(data[l]).val > 0}}
    IN  IF pos = {} THEN 1 ELSE CHOOSE x \in pos : \A y \in pos : y <= x

\* int((val / maxVal) * float64(width))
barLength(val, maxVal, width) == (val * width) \div maxVal

Charted(data) ==
    SelectSeq(SortedLabels, LAMBDA l : l \in DOMAIN data /\ convertToFloat(data[l]).ok)

\* strings.Repeat panics on a negative count.
RepeatPanics(count) == count < 0

\* The chart (title and one bar per convertible label, in label order), or a
\* panic out of strings.Repeat.
generateBarChart(data, title, width) ==
    LET maxVal == MaxOf(data)
        labels == Charted(data)
        bar(l) == barLength(convertToFloat(data[l]).val, maxVal, width)
    IN  IF \E i \in 1..Len(labels) : RepeatPanics(bar(labels[i]))
        THEN [panic |-> TRUE, chart |-> <<>>]
        ELSE [panic |-> FALSE,
              chart |-> <<title>> \o [i \in 1..Len(labels) |->
                                         labels[i] \o " | " \o ToString(bar(labels[i]))]]

createChart(p) ==
    IF ~Has(p, "data") THEN Return(ErrorEnvelope("data is required"))
    ELSE IF ~IsObject(p, "data") THEN Return(ErrorEnvelope("data must be an object"))
    ELSE IF DOMAIN p.m["data"].o = {} THEN Return([chart |-> <<"No data provided">>])
    ELSE LET title == IF IsString(p, "title") THEN p.m["title"].s ELSE ""
             width == IF IsNumber(p, "width") THEN p.m["width"].n ELSE 60
             c == generateBarChart(p.m["data"].o, title, width)
         IN  IF c.panic THEN Panic ELSE Return([chart |-> c.chart])

(***************************************************************************)
(* llm, terraform, slack                                                   *)
(***************************************************************************)
openaiGenerate(p, apiKey) ==
    IF ~apiKey THEN Return(ErrorEnvelope("OPENAI_API_KEY not configured"))
    ELSE IF ~IsString(p, "prompt") THEN Return(ErrorEnvelope("prompt is required"))
    ELSE Call([method |-> "POST", url |-> "https://api.openai.com/v1/chat/completions",
               model |-> IF IsString(p, "model") THEN p.m["model"].s ELSE "gpt-3.5-turbo",
               prompt |-> p.m["prompt"].s])

terraformInit(p) ==
    Call([cmd |-> "terraform",
          args |-> <<"init", "-no-color">>
                   \o (IF IsBool(p, "upgrade") /\ p.m["upgrade"].b THEN <<"-upgrade">> ELSE <<>>),
          dir |-> IF IsString(p, "working_dir") /\ p.m["working_dir"].s # ""
                  THEN p.m["working_dir"].s ELSE "."])

sendMessage(p, botToken) ==
    IF ~botToken THEN Return(ErrorEnvelope("SLACK_BOT_TOKEN not configured"))
    ELSE Call([method |-> "POST", url |-> "https://slack.com/api/chat.postMessage",
               channel |-> IF IsString(p, "channel") THEN p.m["channel"].s ELSE "",
               text |-> IF IsString(p, "text") THEN p.m["text"].s ELSE "",
               username |-> IF IsString(p, "username") THEN p.m["username"].s ELSE "Corynth Bot",
               icon_emoji |-> IF IsString(p, "icon_emoji") THEN p.m["icon_emoji"].s
                              ELSE ":robot_face:"])

(***************************************************************************)
(* Execute: the dispatch of each plugin.                                   *)
(***************************************************************************)
\* The default branch of Execute's switch.
(***************************************************************************)
(* aws                                                                     *)
(***************************************************************************)
\* The fixed path aws lambda invoke is told to write the response to.
LambdaResponseFile == "/tmp/lambda-response.json"

lambdaInvoke(p) ==
    IF ~IsString(p, "function_name") \/ p.m["function_name"].s = ""
    THEN Return(ErrorEnvelope("function_name is required"))
    ELSE Call([cmd |-> "aws", function |-> p.m["function_name"].s,
               outfile |-> LambdaResponseFile])

(***************************************************************************)
(* ansible                                                                 *)
(***************************************************************************)
\* A string as the shell reads it: its words, blanks and command separators.
Lex(str) ==
    CASE str = "echo hi" -> <<"echo", " ", "hi">>
      [] str = "all; id" -> <<"all", ";", " ", "id">>
      [] OTHER -> <<str>>

RECURSIVE Join(_)
\* strings.Join(args, " ")
Join(args) ==
    IF args = <<>> THEN <<>>
    ELSE IF Len(args) = 1 THEN Lex(args[1])
    ELSE Lex(args[1]) \o <<" ">> \o Join(Tail(args))

RECURSIVE Commands(_, _)
\* bash -c: a blank ends a word, a semicolon ends a command.
Commands(script, cmds) ==
    IF script = <<>> THEN cmds
    ELSE Commands(Tail(script),
                  CASE Head(script) = ";" -> Append(cmds, <<>>)
                    [] Head(script) = " " -> cmds
                    [] OTHER -> [cmds EXCEPT ![Len(cmds)] = Append(@, Head(script))])

\* The commands bash runs for a script, each with its argument list.
Shell(script) == Commands(script, <<<<>>>>)

runAdHoc(p) ==
    IF ~IsString(p, "hosts") \/ p.m["hosts"].s = ""
    THEN Return(ErrorEnvelope("hosts is required"))
    ELSE IF ~IsString(p, "module") \/ p.m["module"].s = ""
    THEN Return(ErrorEnvelope("module is required"))
    ELSE LET inventory == IF IsString(p, "inventory") /\ p.m["inventory"].s # ""
                          THEN p.m["inventory"].s ELSE "localhost,"
             args == <<"ansible", p.m["hosts"].s, "-i", inventory, "-m", p.m["module"].s>>
                     \o (IF IsString(p, "args") /\ p.m["args"].s # ""
                         THEN <<"-a", p.m["args"].s>> ELSE <<>>)
         IN  Call([cmd |-> "bash", script |-> Join(args)])

(***************************************************************************)
(* file                                                                    *)
(***************************************************************************)
\* A file's bytes are a string.  "#" stands for the byte 0xFF, which occurs
\* in no UTF-8 text.
NoFile == [exists |-> FALSE, data |-> ""]
File(data) == [exists |-> TRUE, data |-> data]

\* The paths that can hold a regular file, and the directories that may be
\* missing; /data, /tmp and / are directories that are always there.
Paths == {"/data/p", LambdaResponseFile, "/new/q"}
Dirs == {"/new"}
Directory == [exists |-> TRUE, data |-> ""]

\* filepath.Dir of the paths of the requests
Dir(path) == IF path = "/new/q" THEN "/new" ELSE "/"

\* whether the directory d is there in the filesystem fs
DirExists(fs, d) == d \notin Dirs \/ fs[d].exists

\* os.MkdirAll(d, 0755)
MkdirAll(fs, d) == IF d \in Dirs THEN [fs EXCEPT ![d] = Directory] ELSE fs

readFile(p) ==
    IF ~IsString(p, "path") \/ p.m["path"].s = ""
    THEN Return(ErrorEnvelope("path is required"))
    ELSE LET path == p.m["path"].s
         IN  IF path \notin Paths \/ ~files[path].exists
             THEN Return(ErrorEnvelope("failed to read file: " \o path))
             ELSE Return([content |-> files[path].data, size |-> Len(files[path].data)])

getBoolParam(p, key, defaultValue) == IF IsBool(p, key) THEN p.m[key].b ELSE defaultValue

\* The filesystem once a handler has created the directory of the path it is
\* given under key, if create_dirs asks for it.
AfterDirs(p, key) ==
    IF getBoolParam(p, "create_dirs", FALSE)
    THEN MkdirAll(files, Dir(p.m[key].s))
    ELSE files

\* whether writeFile gets as far as os.OpenFile and opens the file
Opens(p) ==
    /\ IsString(p, "path") /\ p.m["path"].s \in Paths
    /\ IsString(p, "content")
    /\ DirExists(AfterDirs(p, "path"), Dir(p.m["path"].s))

writeFile(p) ==
    IF ~IsString(p, "path") \/ p.m["path"].s = ""
    THEN Return(ErrorEnvelope("path is required"))
    ELSE IF ~IsString(p, "content")
    THEN Return(ErrorEnvelope("content is required"))
    ELSE IF ~Opens(p)
    THEN Return([error |-> "failed to open file: " \o p.m["path"].s, success |-> FALSE])
    ELSE Return([success |-> TRUE, size |-> Len(p.m["content"].s)])

\* The filesystem after writeFile: MkdirAll makes the directory, O_APPEND
\* keeps what is in the file, O_TRUNC drops it, O_CREATE makes the file.
Written(p) ==
    IF ~IsString(p, "path") \/ p.m["path"].s = "" \/ ~IsString(p, "content")
    THEN files
    ELSE IF ~Opens(p) THEN AfterDirs(p, "path")
    ELSE LET path == p.m["path"].s
             appendMode == getBoolParam(p, "append", FALSE)
         IN  [AfterDirs(p, "path") EXCEPT ![path] =
                 File((IF appendMode THEN files[path].data ELSE "") \o p.m["content"].s)]

\* copyFile and moveFile get past their parameter checks
HasEnds(p) ==
    /\ IsString(p, "source") /\ p.m["source"].s # ""
    /\ IsString(p, "destination") /\ p.m["destination"].s # ""

\* os.Stat(path), os.Open(path) succeed in the filesystem fs
Stat(fs, path) == path \in Paths \cup Dirs /\ fs[path].exists

\* os.Create(path), and os.Rename to path, succeed in the filesystem fs
Creates(fs, path) == path \in Paths /\ DirExists(fs, Dir(path))

\* The handler of copy.  The sources of the requests are regular files.
copyFile(p) ==
    IF ~IsString(p, "source") \/ p.m["source"].s = ""
    THEN Return(ErrorEnvelope("source is required"))
    ELSE IF ~IsString(p, "destination") \/ p.m["destination"].s = ""
    THEN Return(ErrorEnvelope("destination is required"))
    ELSE LET fs == AfterDirs(p, "destination")
         IN  IF ~Stat(fs, p.m["source"].s)
             THEN Return([error |-> "failed to stat source: " \o p.m["source"].s,
                          success |-> FALSE])
             ELSE IF ~Creates(fs, p.m["destination"].s)
             THEN Return([error |-> "failed to copy: " \o p.m["destination"].s,
                          success |-> FALSE])
             ELSE Return([success |-> TRUE])

\* The filesystem after the handler of copy: MkdirAll, then os.Create and
\* io.Copy of the helper copyFile.
Copied(p) ==
    IF ~HasEnds(p) THEN files
    ELSE LET fs == AfterDirs(p, "destination")
             src == p.m["source"].s
             dst == p.m["destination"].s
         IN  IF ~Stat(fs, src) \/ ~Creates(fs, dst) THEN fs
             ELSE [fs EXCEPT ![dst] = File(IF dst = src THEN "" ELSE fs[src].data)]

moveFile(p) ==
    IF ~IsString(p, "source") \/ p.m["source"].s = ""
    THEN Return(ErrorEnvelope("source is required"))
    ELSE IF ~IsString(p, "destination") \/ p.m["destination"].s = ""
    THEN Return(ErrorEnvelope("destination is required"))
    ELSE LET fs == AfterDirs(p, "destination")
         IN  IF ~Stat(fs, p.m["source"].s) \/ ~Creates(fs, p.m["destination"].s)
             THEN Return([error |-> "failed to move file: " \o p.m["source"].s,
                          success |-> FALSE])
             ELSE Return([success |-> TRUE])

\* The filesystem after the handler of move: MkdirAll, then os.Rename.
Moved(p) ==
    IF ~HasEnds(p) THEN files
    ELSE LET fs == AfterDirs(p, "destination")
             src == p.m["source"].s
             dst == p.m["destination"].s
         IN  IF ~Stat(fs, src) \/ ~Creates(fs, dst) \/ src = dst THEN fs
             ELSE [fs EXCEPT ![dst] = fs[src], ![src] = NoFile]

UnknownAction(pl, action) ==
    IF pl \in {"calculator", "http", "reporting", "aws", "ansible", "file"}
    THEN Fail("unknown action: " \o action)
    ELSE Return(ErrorEnvelope("Unknown action: " \o action))

Execute(pl, action, p, tok) ==
    CASE pl = "calculator" /\ action = "calculate" -> calculate(p)
      [] pl = "http" /\ action = "get" -> makeGetRequest(p)
      [] pl = "reporting" /\ action = "create_chart" -> createChart(p)
      [] pl = "llm" /\ action = "generate" -> openaiGenerate(p, tok)
      [] pl = "terraform" /\ action = "init" -> terraformInit(p)
      [] pl = "slack" /\ action = "message" -> sendMessage(p, tok)
      [] pl = "aws" /\ action = "lambda_invoke" -> lambdaInvoke(p)
      [] pl = "ansible" /\ action = "ad_hoc" -> runAdHoc(p)
      [] pl = "file" /\ action = "read" -> readFile(p)
      [] pl = "file" /\ action = "write" -> writeFile(p)
      [] pl = "file" /\ action = "copy" -> copyFile(p)
      [] pl = "file" /\ action = "move" -> moveFile(p)
      [] OTHER -> UnknownAction(pl, action)

(***************************************************************************)
(* The rest of a handler, once its collaborator has answered.  The world   *)
(* is "ok" (HTTP 200, subprocess exit 0), "failing" (HTTP 500, subprocess  *)
(* exit 1) or "unreachable" (network failure, executable not found).       *)
(***************************************************************************)
Worlds == {"ok", "failing", "unreachable"}

\* makeGetRequest after client.Do
getResponse(w) ==
    IF w = "unreachable" THEN ErrorEnvelope("request failed: dial tcp: connection refused")
    ELSE [status_code |-> IF w = "ok" THEN 200 ELSE 500, content |-> "body"]

\* openaiGenerate after client.Do
generateResponse(w) ==
    IF w = "unreachable"
    THEN ErrorEnvelope("HTTP request failed: dial tcp: connection refused")
    ELSE IF w = "failing" THEN ErrorEnvelope("API error (500): body")
    ELSE [text |-> "completion"]

\* terraformInit after runTerraformCommand
initResult(w) ==
    IF w = "unreachable"
    THEN ErrorEnvelope("exec: terraform: executable file not found in $PATH")
    ELSE [success |-> w = "ok", output |-> "output"]

\* sendMessage after client.Do
messageResponse(w) ==
    IF w = "unreachable"
    THEN ErrorEnvelope("Failed to send request: dial tcp: connection refused")
    ELSE [success |-> w = "ok", timestamp |-> IF w = "ok" THEN "1700000000.000100" ELSE ""]

\* lambdaInvoke after exec.Command("aws", ...).Output()
invokeOutput(w) ==
    IF w = "ok" THEN [StatusCode |-> 200]
    ELSE ErrorEnvelope("aws command failed: " \o
                       (IF w = "failing" THEN "exit status 255"
                        ELSE "exec: aws: executable file not found in $PATH"))

\* What the invoked function answers; aws writes it to the outfile.
Payload(function) == "response of " \o function

\* runAdHoc after cmd.CombinedOutput()
adHocResult(w) ==
    [success |-> w = "ok", output |-> IF w = "unreachable" THEN "" ELSE "output"]

Respond(pl, w) ==
    CASE pl = "http" -> getResponse(w)
      [] pl = "llm" -> generateResponse(w)
      [] pl = "terraform" -> initResult(w)
      [] pl = "slack" -> messageResponse(w)
      [] pl = "aws" -> invokeOutput(w)
      [] pl = "ansible" -> adHocResult(w)

(***************************************************************************)
(* The decode step of each main(): ok tells whether main goes on to the    *)
(* dispatch; if not, result is the envelope it writes instead.             *)
(***************************************************************************)
Decoded(p) == [ok |-> TRUE, params |-> p, result |-> NoFields]
Rejected(env) == [ok |-> FALSE, params |-> NilMap, result |-> env]

\* DecodeStandard without the len(inputData) > 0 test: empty input goes to
\* Unmarshal like any other.
DecodeStandardAlwaysParses(input) ==
    LET u == Unmarshal(input)
    IN  IF u.err # ""
        THEN Rejected(ErrorEnvelope("failed to parse JSON: " \o u.err))
        ELSE Decoded(u.val)

\* calculator, http, reporting (and template, aws, sql, ansible, file, kubernetes)
DecodeStandard(input) ==
    IF ByteLen(input) > 0
    THEN LET u == Unmarshal(input)
         IN  IF u.err # ""
             THEN Rejected(ErrorEnvelope("failed to parse JSON: " \o u.err))
             ELSE Decoded(u.val)
    ELSE Decoded(MakeMap(NoFields))

\* llm: trims, rejects what does not parse, makes the map if still nil
DecodeLLM(input) ==
    IF ByteLen(input) > 0 /\ ByteLen(TrimSpace(input)) > 0
    THEN LET u == Unmarshal(TrimSpace(input))
         IN  IF u.err # ""
             THEN Rejected(ErrorEnvelope("Invalid JSON input: " \o u.err))
             ELSE Decoded(IF u.val.nil THEN MakeMap(NoFields) ELSE u.val)
    ELSE Decoded(MakeMap(NoFields))

\* terraform: drops the error of Unmarshal, makes the map if still nil
DecodeTerraform(input) ==
    LET p == IF ByteLen(input) > 0 THEN Unmarshal(input).val ELSE NilMap
    IN  Decoded(IF p.nil THEN MakeMap(NoFields) ELSE p)

\* slack: a Decoder on stdin; any error means empty params
DecodeSlack(input) ==
    LET d == Decode(input)
    IN  Decoded(IF d.err # "" THEN MakeMap(NoFields) ELSE d.val)

MainStyle(pl) ==
    CASE pl \in {"calculator", "http", "reporting", "aws", "ansible", "file"} -> "standard"
      [] pl = "teams" -> "grpc"
      [] pl = "llm" -> "llm"
      [] pl = "terraform" -> "terraform"
      [] pl = "slack" -> "slack"

DecodeFor(pl, input) ==
    CASE MainStyle(pl) = "standard" -> DecodeStandard(input)
      [] MainStyle(pl) = "llm" -> DecodeLLM(input)
      [] MainStyle(pl) = "terraform" -> DecodeTerraform(input)
      [] MainStyle(pl) = "slack" -> DecodeSlack(input)

\* llm and terraform read and decode stdin before they look at the mode.
ReadsFirst(pl) == MainStyle(pl) \in {"llm", "terraform"}

(***************************************************************************)
(* The processes.                                                          *)
(***************************************************************************)
Modes == {"metadata", "actions"}

\* The command lines: no argument, the two discovery modes, each modelled
\* action, a name no plugin registers, and the form of the development
\* guide's test script, `execute <action>`.
Args(pl) == {<<>>, <<"metadata">>, <<"actions">>, <<"badaction">>}
            \cup {<<a>> : a \in Registered(pl)}
            \cup {<<"execute", a>> : a \in Registered(pl)}
            \cup (IF MainStyle(pl) = "grpc" THEN {<<"serve">>} ELSE {})

\* The two command lines are the same, or a read and a write of the file
\* plugin.
ArgvPairs(pl) ==
    {f \in [Invocations -> Args(pl)] :
        \/ \A i, j \in Invocations : f[i] = f[j]
        \/ pl = "file" /\ \A i \in Invocations : f[i] \in {<<"read">>, <<"write">>}}

\* The filesystem the invocations start in: the file plugin may find /data/p
\* there already.
InitialFiles(pl) ==
    {f \in [Paths \cup Dirs -> {NoFile, File("x"), File("#")}] :
        /\ \A path \in (Paths \cup Dirs) \ {"/data/p"} : ~f[path].exists
        /\ f["/data/p"].exists => pl = "file"}

HasCollaborator(pl) == pl \in {"http", "llm", "terraform", "slack", "aws", "ansible"}
NeedsToken(pl) == pl \in {"llm", "slack"}

\* No kubectl has been started.
NoCommand ==
    /\ cmd = "idle" /\ writes = <<>>
    /\ outPipe = 0 /\ errPipe = 0
    /\ stdoutBytes = 0 /\ stderrBytes = 0
    /\ kubectlExited = FALSE

Init ==
    /\ plugin \in Plugins
    /\ world \in (IF HasCollaborator(plugin) THEN Worlds ELSE {"ok"})
    /\ token \in (IF NeedsToken(plugin) THEN BOOLEAN ELSE {TRUE})
    /\ argv \in ArgvPairs(plugin)
    /\ files \in InitialFiles(plugin)
    /\ stdin \in [Invocations -> StdinDocs(plugin)]
    /\ pc = [i \in Invocations |-> "start"]
    /\ inputData = [i \in Invocations |-> Empty]
    /\ params = [i \in Invocations |-> NilMap]
    /\ result = [i \in Invocations |-> NoFields]
    /\ pending = [i \in Invocations |-> NoFields]
    /\ stdout = [i \in Invocations |-> <<>>]
    /\ exitCode = [i \in Invocations |-> 0 - 1]
    /\ stdinReads = [i \in Invocations |-> 0]
    /\ handlerCalls = [i \in Invocations |-> 0]
    /\ contacted = [i \in Invocations |-> <<>>]
    /\ NoCommand

action(i) == argv[i][1]

\* len(os.Args) < 2: the usage envelope and os.Exit(1)
ActionRequired(i) ==
    /\ pc[i] = "start"
    /\ MainStyle(plugin) # "grpc"
    /\ Len(argv[i]) < 1
    /\ stdout' = [stdout EXCEPT ![i] = Append(@, ErrorEnvelope("action required"))]
    /\ exitCode' = [exitCode EXCEPT ![i] = 1]
    /\ pc' = [pc EXCEPT ![i] = "exited"]
    /\ UNCHANGED kube
    /\ UNCHANGED <<files, plugin, world, token, argv, stdin, inputData, params, result,
                   pending, stdinReads, handlerCalls, contacted>>

\* the gRPC main: os.Args[1] == "serve", ServePlugin takes over
Serve(i) ==
    /\ pc[i] = "start"
    /\ MainStyle(plugin) = "grpc"
    /\ Len(argv[i]) >= 1 /\ argv[i][1] = "serve"
    /\ pc' = [pc EXCEPT ![i] = "serving"]
    /\ UNCHANGED kube
    /\ UNCHANGED <<files, plugin, world, token, argv, stdin, inputData, params, result,
                   pending, stdout, exitCode, stdinReads, handlerCalls, contacted>>

\* A line of text on stdout that is not JSON.
Text(line) == [raw |-> line]

\* the gRPC main with any other command line: the two Printf of the banner,
\* and main returns
Usage(i) ==
    /\ pc[i] = "start"
    /\ MainStyle(plugin) = "grpc"
    /\ ~(Len(argv[i]) >= 1 /\ argv[i][1] = "serve")
    /\ stdout' = [stdout EXCEPT ![i] = @ \o <<Text("Corynth Teams Plugin v1.0.0"),
                                              Text("Usage: corynth-plugin-teams serve")>>]
    /\ exitCode' = [exitCode EXCEPT ![i] = 0]
    /\ pc' = [pc EXCEPT ![i] = "exited"]
    /\ UNCHANGED kube
    /\ UNCHANGED <<files, plugin, world, token, argv, stdin, inputData, params, result,
                   pending, stdinReads, handlerCalls, contacted>>

Start(i) ==
    /\ pc[i] = "start"
    /\ MainStyle(plugin) # "grpc"
    /\ Len(argv[i]) >= 1
    /\ pc' = [pc EXCEPT ![i] = IF ReadsFirst(plugin) THEN "read" ELSE "switch"]
    /\ UNCHANGED kube
    /\ UNCHANGED <<files, plugin, world, token, argv, stdin, inputData, params, result,
                   pending, stdout, exitCode, stdinReads, handlerCalls, contacted>>

\* case "metadata", case "actions"
Discover(i) ==
    /\ pc[i] = "switch"
    /\ action(i) \in Modes
    /\ result' = [result EXCEPT ![i] = IF action(i) = "metadata"
                                       THEN GetMetadata(plugin) ELSE GetActions(plugin)]
    /\ pc' = [pc EXCEPT ![i] = "encode"]
    /\ UNCHANGED kube
    /\ UNCHANGED <<files, plugin, world, token, argv, stdin, inputData, params,
                   pending, stdout, exitCode, stdinReads, handlerCalls, contacted>>

\* default
Default(i) ==
    /\ pc[i] = "switch"
    /\ action(i) \notin Modes
    /\ pc' = [pc EXCEPT ![i] = IF ReadsFirst(plugin) THEN "execute" ELSE "read"]
    /\ UNCHANGED kube
    /\ UNCHANGED <<files, plugin, world, token, argv, stdin, inputData, params, result,
                   pending, stdout, exitCode, stdinReads, handlerCalls, contacted>>

\* io.ReadAll(os.Stdin), or the Decoder's read: it returns when stdin has
\* delivered its document or its end, and waits as long as it has not.
ReadStdin(i) ==
    /\ pc[i] = "read"
    /\ stdin[i] # Open
    /\ inputData' = [inputData EXCEPT ![i] = stdin[i]]
    /\ stdinReads' = [stdinReads EXCEPT ![i] = @ + 1]
    /\ pc' = [pc EXCEPT ![i] = "decode"]
    /\ UNCHANGED kube
    /\ UNCHANGED <<files, plugin, world, token, argv, stdin, params, result,
                   pending, stdout, exitCode, handlerCalls, contacted>>

DecodeInput(i) ==
    /\ pc[i] = "decode"
    /\ LET d == DecodeFor(plugin, inputData[i])
       IN  /\ params' = [params EXCEPT ![i] = d.params]
           /\ result' = [result EXCEPT ![i] = d.result]
           /\ pc' = [pc EXCEPT ![i] = IF ~d.ok THEN "encode"
                                      ELSE IF ReadsFirst(plugin) THEN "switch"
                                      ELSE "execute"]
    /\ UNCHANGED kube
    /\ UNCHANGED <<files, plugin, world, token, argv, stdin, inputData,
                   pending, stdout, exitCode, stdinReads, handlerCalls, contacted>>

Handler(i) == Execute(plugin, action(i), params[i], token)

Invoked(i) == IF action(i) \in Registered(plugin) THEN 1 ELSE 0

\* plugin.Execute returns an envelope, or an error that main wraps
ExecuteReturns(i) ==
    /\ pc[i] = "execute"
    /\ Handler(i).kind \in {"return", "error"}
    /\ result' = [result EXCEPT ![i] = Handler(i).env]
    /\ files' = CASE plugin = "file" /\ action(i) = "write" -> Written(params[i])
                  [] plugin = "file" /\ action(i) = "copy" -> Copied(params[i])
                  [] plugin = "file" /\ action(i) = "move" -> Moved(params[i])
                  [] OTHER -> files
    /\ handlerCalls' = [handlerCalls EXCEPT ![i] = @ + Invoked(i)]
    /\ pc' = [pc EXCEPT ![i] = "encode"]
    /\ UNCHANGED kube
    /\ UNCHANGED <<plugin, world, token, argv, stdin, inputData, params,
                   pending, stdout, exitCode, stdinReads, contacted>>

\* the handler panics; no main recovers, the Go runtime exits with status 2
ExecutePanics(i) ==
    /\ pc[i] = "execute"
    /\ Handler(i).kind = "panic"
    /\ handlerCalls' = [handlerCalls EXCEPT ![i] = @ + Invoked(i)]
    /\ exitCode' = [exitCode EXCEPT ![i] = 2]
    /\ pc' = [pc EXCEPT ![i] = "exited"]
    /\ UNCHANGED kube
    /\ UNCHANGED <<files, plugin, world, token, argv, stdin, inputData, params, result,
                   pending, stdout, stdinReads, contacted>>

\* the handler sends its request to the collaborator
ExecuteCalls(i) ==
    /\ pc[i] = "execute"
    /\ Handler(i).kind = "call"
    /\ handlerCalls' = [handlerCalls EXCEPT ![i] = @ + Invoked(i)]
    /\ pending' = [pending EXCEPT ![i] = Handler(i).req]
    /\ contacted' = [contacted EXCEPT ![i] = Append(@, Handler(i).req)]
    /\ pc' = [pc EXCEPT ![i] = "call"]
    /\ UNCHANGED kube
    /\ UNCHANGED <<files, plugin, world, token, argv, stdin, inputData, params, result,
                   stdout, exitCode, stdinReads>>

\* aws lambda invoke has written the function's answer to its outfile
WritesOutfile(i) == plugin = "aws" /\ world = "ok"

\* What the aws child leaves in its outfile: the answer of the function when
\* it succeeds; when it fails, nothing, or a file it had begun before the
\* failure (it was killed, or could not finish writing); NoFile stands for no
\* write.
Outfile(i) ==
    IF plugin # "aws" \/ world = "unreachable" THEN {NoFile}
    ELSE IF world = "ok" THEN {File(Payload(pending[i].function))}
    ELSE {NoFile, File("")}

\* the collaborator answers and the handler returns, or (lambdaInvoke) goes
\* on to read the outfile
CollaboratorAnswers(i) ==
    /\ pc[i] = "call"
    /\ result' = [result EXCEPT ![i] = Respond(plugin, world)]
    /\ \E left \in Outfile(i) : files' = IF left = NoFile THEN files
                                          ELSE [files EXCEPT ![pending[i].outfile] = left]
    /\ pc' = [pc EXCEPT ![i] = IF WritesOutfile(i) THEN "readfile" ELSE "encode"]
    /\ UNCHANGED kube
    /\ UNCHANGED <<plugin, world, token, argv, stdin, inputData, params,
                   pending, stdout, exitCode, stdinReads, handlerCalls, contacted>>

\* lambdaInvoke: os.ReadFile("/tmp/lambda-response.json"); the answer goes
\* into the result if the file is there
ReadResponse(i) ==
    /\ pc[i] = "readfile"
    /\ IF files[LambdaResponseFile].exists
       THEN /\ result' = [result EXCEPT ![i] =
                              [StatusCode |-> @.StatusCode,
                               response |-> files[LambdaResponseFile].data]]
            /\ pc' = [pc EXCEPT ![i] = "remove"]
       ELSE /\ pc' = [pc EXCEPT ![i] = "encode"]
            /\ UNCHANGED result
    /\ UNCHANGED kube
    /\ UNCHANGED <<files, plugin, world, token, argv, stdin, inputData, params,
                   pending, stdout, exitCode, stdinReads, handlerCalls, contacted>>

\* lambdaInvoke: os.Remove("/tmp/lambda-response.json"), and it returns
RemoveResponse(i) ==
    /\ pc[i] = "remove"
    /\ files' = [files EXCEPT ![LambdaResponseFile] = NoFile]
    /\ pc' = [pc EXCEPT ![i] = "encode"]
    /\ UNCHANGED kube
    /\ UNCHANGED <<plugin, world, token, argv, stdin, inputData, params, result,
                   pending, stdout, exitCode, stdinReads, handlerCalls, contacted>>

\* encoding/json writes a Go string as valid UTF-8: every byte that is not
\* part of a UTF-8 sequence becomes U+FFFD, written "?" here.
ToValidUTF8(str) ==
    CASE str = "#" -> "?"
      [] str = "#a" -> "?a"
      [] str = "#b" -> "?b"
      [] str = "#bb" -> "?bb"
      [] OTHER -> str

\* json.Marshal of an envelope; content is the field that can hold bytes
\* read from a file.
Marshal(env) ==
    IF "content" \in DOMAIN env THEN [env EXCEPT !.content = ToValidUTF8(@)] ELSE env

\* encoding/json refuses a float64 that is an infinity or NaN: Marshal then
\* returns an UnsupportedValueError and no bytes.
Encodable(env) ==
    ~(plugin = "calculator" /\ "result" \in DOMAIN env /\ ~IsFinite(env.result))

\* json.NewEncoder(os.Stdout).Encode(result), its error dropped, and main
\* returns
Encode(i) ==
    /\ pc[i] = "encode"
    /\ stdout' = [stdout EXCEPT ![i] = IF Encodable(result[i])
                                       THEN Append(@, Marshal(result[i]))
                                       ELSE @]
    /\ exitCode' = [exitCode EXCEPT ![i] = 0]
    /\ pc' = [pc EXCEPT ![i] = "exited"]
    /\ UNCHANGED kube
    /\ UNCHANGED <<files, plugin, world, token, argv, stdin, inputData, params, result,
                   pending, stdinReads, handlerCalls, contacted>>

Next ==
    \E i \in Invocations :
        \/ ActionRequired(i)
        \/ Serve(i)
        \/ Usage(i)
        \/ Start(i)
        \/ Discover(i)
        \/ Default(i)
        \/ ReadStdin(i)
        \/ DecodeInput(i)
        \/ ExecuteReturns(i)
        \/ ExecutePanics(i)
        \/ ExecuteCalls(i)
        \/ CollaboratorAnswers(i)
        \/ ReadResponse(i)
        \/ RemoveResponse(i)
        \/ Encode(i)

Spec == Init /\ [][Next]_vars

(***************************************************************************)
(* runKubectlCommand of the kubernetes plugin with its kubectl child.  The *)
(* child makes its writes, one block each, to its stdout or its stderr; a  *)
(* write waits while the pipe is full; when the writes are done the child  *)
(* exits, which closes its ends of both pipes.  The plugin process around  *)
(* the function stands still meanwhile.                                    *)
(***************************************************************************)
Streams == {"out", "err"}

RECURSIVE Scripts(_)
Scripts(n) ==
    IF n = 0 THEN {<<>>}
    ELSE Scripts(n - 1) \cup {Append(sc, st) : sc \in {x \in Scripts(n - 1) : Len(x) = n - 1},
                                                st \in Streams}

main == <<plugin, world, token, argv, stdin, pc, inputData, params, result,
          pending, stdout, exitCode, stdinReads, handlerCalls, contacted, files>>

InitKubectl ==
    /\ plugin = "kubernetes"
    /\ world \in Worlds
    /\ token = TRUE
    /\ argv = [i \in Invocations |-> <<"get">>]
    /\ files = [path \in Paths \cup Dirs |-> NoFile]
    /\ stdin = [i \in Invocations |-> ObjectDoc(NoFields)]
    /\ pc = [i \in Invocations |-> "execute"]
    /\ inputData = [i \in Invocations |-> ObjectDoc(NoFields)]
    /\ params = [i \in Invocations |-> MakeMap(NoFields)]
    /\ result = [i \in Invocations |-> NoFields]
    /\ pending = [i \in Invocations |-> NoFields]
    /\ stdout = [i \in Invocations |-> <<>>]
    /\ exitCode = [i \in Invocations |-> 0 - 1]
    /\ stdinReads = [i \in Invocations |-> 1]
    /\ handlerCalls = [i \in Invocations |-> 0]
    /\ contacted = [i \in Invocations |-> <<>>]
    /\ cmd = "start"
    /\ writes \in Scripts(MaxWrites)
    /\ outPipe = 0 /\ errPipe = 0
    /\ stdoutBytes = 0 /\ stderrBytes = 0
    /\ kubectlExited = FALSE

\* cmd.Start() starts kubectl, and io.ReadAll(stdout) begins
StartKubectl ==
    /\ cmd = "start" /\ world # "unreachable"
    /\ cmd' = "readout"
    /\ UNCHANGED <<main, writes, outPipe, errPipe, stdoutBytes, stderrBytes, kubectlExited>>

\* cmd.Start() fails: "failed to start kubectl"
StartFails ==
    /\ cmd = "start" /\ world = "unreachable"
    /\ cmd' = "returned"
    /\ UNCHANGED <<main, writes, outPipe, errPipe, stdoutBytes, stderrBytes, kubectlExited>>

Running == cmd \in {"readout", "readerr", "wait"} /\ ~kubectlExited

\* kubectl writes the next block of its writes, if the pipe has room
KubectlWrites ==
    /\ Running /\ writes # <<>>
    /\ \/ Head(writes) = "out" /\ outPipe < PipeCap
          /\ outPipe' = outPipe + 1 /\ UNCHANGED errPipe
       \/ Head(writes) = "err" /\ errPipe < PipeCap
          /\ errPipe' = errPipe + 1 /\ UNCHANGED outPipe
    /\ writes' = Tail(writes)
    /\ UNCHANGED <<main, cmd, stdoutBytes, stderrBytes, kubectlExited>>

\* kubectl has written everything and exits
KubectlExits ==
    /\ Running /\ writes = <<>>
    /\ kubectlExited' = TRUE
    /\ UNCHANGED <<main, cmd, writes, outPipe, errPipe, stdoutBytes, stderrBytes>>

\* io.ReadAll(stdout) takes what the pipe holds
ReadStdout ==
    /\ cmd = "readout" /\ outPipe > 0
    /\ stdoutBytes' = stdoutBytes + outPipe
    /\ outPipe' = 0
    /\ UNCHANGED <<main, cmd, writes, errPipe, stderrBytes, kubectlExited>>

\* io.ReadAll(stdout) meets the end of the stream; io.ReadAll(stderr) begins
StdoutEOF ==
    /\ cmd = "readout" /\ outPipe = 0 /\ kubectlExited
    /\ cmd' = "readerr"
    /\ UNCHANGED <<main, writes, outPipe, errPipe, stdoutBytes, stderrBytes, kubectlExited>>

\* io.ReadAll(stderr) takes what the pipe holds
ReadStderr ==
    /\ cmd = "readerr" /\ errPipe > 0
    /\ stderrBytes' = stderrBytes + errPipe
    /\ errPipe' = 0
    /\ UNCHANGED <<main, cmd, writes, outPipe, stdoutBytes, kubectlExited>>

\* io.ReadAll(stderr) meets the end of the stream
StderrEOF ==
    /\ cmd = "readerr" /\ errPipe = 0 /\ kubectlExited
    /\ cmd' = "wait"
    /\ UNCHANGED <<main, writes, outPipe, errPipe, stdoutBytes, stderrBytes, kubectlExited>>

\* cmd.Wait() and the return
WaitReturns ==
    /\ cmd = "wait" /\ kubectlExited
    /\ cmd' = "returned"
    /\ UNCHANGED <<main, writes, outPipe, errPipe, stdoutBytes, stderrBytes, kubectlExited>>

NextKubectl ==
    \/ StartKubectl
    \/ StartFails
    \/ KubectlWrites
    \/ KubectlExits
    \/ ReadStdout
    \/ StdoutEOF
    \/ ReadStderr
    \/ StderrEOF
    \/ WaitReturns

\* The operating system schedules both processes: a step that stays possible
\* is taken.
SpecKubectl ==
    /\ InitKubectl /\ [][NextKubectl]_vars
    /\ WF_vars(StartKubectl) /\ WF_vars(StartFails)
    /\ WF_vars(KubectlWrites) /\ WF_vars(KubectlExits)
    /\ WF_vars(ReadStdout) /\ WF_vars(StdoutEOF)
    /\ WF_vars(ReadStderr) /\ WF_vars(StderrEOF)
    /\ WF_vars(WaitReturns)

(***************************************************************************)
(* Properties.                                                             *)
(***************************************************************************)
Exited(i) == pc[i] = "exited"
HasMode(i) == Len(argv[i]) >= 1
Discovery(i) == HasMode(i) /\ action(i) \in Modes
RunsAction(i) == HasMode(i) /\ action(i) \in Registered(plugin)
Unregistered(i) == HasMode(i) /\ action(i) \notin Modes \cup Registered(plugin)
IsFailure(env) == "error" \in DOMAIN env

\* The binary has the main of the JSON protocol.  (The binaries with the gRPC
\* main answer no mode of the protocol; C18 is about them.)
SpeaksJSON == MainStyle(plugin) # "grpc"

\* C1: every invocation that has exited has written exactly one JSON value
\* to stdout, whatever its argument and its stdin.
C1_SingleEnvelope ==
    \A i \in Invocations : (SpeaksJSON /\ Exited(i)) => Len(stdout[i]) = 1

\* C2: a fault raised inside the handler of a registered action is caught:
\* the invocation ends with a failure envelope (one with an error field) on
\* stdout.
C2_HandlerFaultCaught ==
    \A i \in Invocations :
        (Exited(i) /\ RunsAction(i) /\ handlerCalls[i] > 0 /\ Handler(i).kind = "panic")
            => (stdout[i] # <<>> /\ IsFailure(stdout[i][1]))

\* C3: the exit code is non-zero if and only if there was no mode argument.
C3_ExitCode ==
    \A i \in Invocations :
        (SpeaksJSON /\ Exited(i)) => ((exitCode[i] # 0) <=> ~HasMode(i))

\* C4: in metadata and actions mode stdin is never read; it is read only
\* when the first argument is an action name.
C4_DiscoveryReadsNoStdin ==
    \A i \in Invocations : (stdinReads[i] > 0) => (HasMode(i) /\ action(i) \notin Modes)

\* C5: two invocations of the same discovery mode write the same JSON,
\* whatever their stdin, and it is the plugin's static Metadata (action table).
C5_DiscoveryIgnoresStdin ==
    \A i, j \in Invocations :
        (SpeaksJSON /\ Exited(i) /\ Exited(j) /\ Discovery(i) /\ argv[i] = argv[j])
            => /\ stdout[i] = stdout[j]
               /\ stdout[i] = << IF action(i) = "metadata"
                                 THEN GetMetadata(plugin) ELSE GetActions(plugin) >>

\* C6: an unregistered action name with empty stdin yields exactly
\* {"error": "unknown action: <name>"} and exit code 0.
C6_UnknownActionEnvelope ==
    \A i \in Invocations :
        (SpeaksJSON /\ Exited(i) /\ Unregistered(i) /\ stdin[i] = Empty)
            => /\ stdout[i] = << ErrorEnvelope("unknown action: " \o action(i)) >>
               /\ exitCode[i] = 0

\* C7: with an unregistered action name the response is the plugin's
\* unknown-action envelope for every stdin content, valid JSON or not.
C7_UnknownActionSkipsDecoding ==
    \A i \in Invocations :
        (SpeaksJSON /\ Exited(i) /\ Unregistered(i))
            => stdout[i] = << UnknownAction(plugin, action(i)).env >>

\* C8: for a registered action, empty stdin gives the same envelope (and exit
\* code) as stdin {}, and empty stdin is not rejected as an input error: the
\* handler is invoked.
C8_EmptyStdinIsEmptyObject ==
    \A i, j \in Invocations :
        (Exited(i) /\ Exited(j) /\ RunsAction(i) /\ argv[i] = argv[j]
            /\ stdin[i] = Empty /\ stdin[j] = ObjectDoc(NoFields))
            => /\ stdout[i] = stdout[j]
               /\ exitCode[i] = exitCode[j]
               /\ handlerCalls[i] = 1

C8_Witness ==
    /\ Exited(1) /\ Exited(2) /\ RunsAction(1) /\ argv[1] = argv[2]
    /\ stdin[1] = Empty /\ stdin[2] = ObjectDoc(NoFields)
    /\ Len(stdout[1]) = 1 /\ handlerCalls[2] = 1
    /\ plugin = "terraform" /\ contacted[1] # <<>>

\* The texts under which the mains report a stdin that does not decode.
ParseErrors(doc) ==
    {"failed to parse JSON: " \o Unmarshal(doc).err, "Invalid JSON input: " \o Unmarshal(doc).err}

\* C9: for a registered action, a non-empty stdin that is not valid JSON, or
\* is valid JSON but no object, yields a failure envelope carrying the parse
\* error, and the handler is not invoked.
C9_InvalidInputRejected ==
    \A i \in Invocations :
        (Exited(i) /\ RunsAction(i)
            /\ stdin[i].kind \in {"whitespace", "garbage", "null", "number", "array"})
            => /\ handlerCalls[i] = 0
               /\ Len(stdout[i]) = 1
               /\ IsFailure(stdout[i][1])
               /\ (Unmarshal(stdin[i]).err # "" => stdout[i][1].error \in ParseErrors(stdin[i]))

\* The request object an invocation carries (empty stdin is a request with
\* no parameters).
Request(i) == stdin[i].obj

MissingRequired(i) ==
    {k \in DOMAIN GetActions(plugin)[action(i)] :
        GetActions(plugin)[action(i)][k].required /\ k \notin DOMAIN Request(i)}

NamesParameter(msg, k) == msg \in {k \o " is required", k \o " parameter is required"}

\* C10: when a required parameter is absent from the request (credentials
\* being configured), the envelope is a failure whose error names a missing
\* parameter, and the collaborator is never contacted.
C10_MissingRequiredParameter ==
    \A i \in Invocations :
        (Exited(i) /\ RunsAction(i) /\ token /\ stdin[i].kind \in {"empty", "object"}
            /\ MissingRequired(i) # {})
            => /\ contacted[i] = <<>>
               /\ Len(stdout[i]) = 1
               /\ IsFailure(stdout[i][1])
               /\ \E k \in MissingRequired(i) : NamesParameter(stdout[i][1].error, k)

\* The declared inputs of the action an invocation runs.
Inputs(i) == GetActions(plugin)[action(i)]

\* The declared parameters present in the request with another JSON type
\* than the declared one.
Mismatched(i) ==
    {k \in DOMAIN Inputs(i) \cap DOMAIN Request(i) : Request(i)[k].t # Inputs(i)[k].type}

\* An error text that identifies the parameter, the expected and the
\* observed type.
IdentifiesMismatch(msg, k, expected, actual) ==
    msg \in {k \o " must be a " \o expected \o ", got " \o actual,
             k \o ": expected " \o expected \o ", got " \o actual,
             "type mismatch: " \o k \o ": expected " \o expected \o ", actual " \o actual}

\* C11: a declared parameter present with a JSON type other than its
\* declared type makes the action fail with an envelope that identifies the
\* parameter, the expected and the observed type; the handler does not go on
\* with the value or with a default.
C11_TypeMismatchRejected ==
    \A i \in Invocations :
        (Exited(i) /\ RunsAction(i) /\ token /\ stdin[i].kind = "object" /\ Mismatched(i) # {})
            => /\ Len(stdout[i]) = 1
               /\ IsFailure(stdout[i][1])
               /\ contacted[i] = <<>>
               /\ \E k \in Mismatched(i) :
                     IdentifiesMismatch(stdout[i][1].error, k, Inputs(i)[k].type, Request(i)[k].t)

\* The order in which GetActions declares the inputs of each modelled action.
DeclaredOrder(pl) ==
    CASE pl = "calculator" -> <<"expression", "precision">>
      [] pl = "http" -> <<"url", "headers", "timeout", "auth">>
      [] pl = "reporting" -> <<"data", "type", "title", "width">>
      [] pl = "llm" -> <<"prompt", "model", "max_tokens", "temperature">>
      [] pl = "terraform" -> <<"working_dir", "upgrade">>
      [] pl = "slack" -> <<"channel", "text", "username", "icon_emoji">>
      [] pl = "aws" -> <<"function_name", "payload", "invocation_type", "region">>
      [] pl = "ansible" -> <<"hosts", "module", "args", "inventory">>
      [] pl = "file" -> <<"path", "content", "source", "destination", "create_dirs", "append">>

\* The declared parameters whose constraints the request violates.
Offending(i) == MissingRequired(i) \cup Mismatched(i)

FirstOffending(i) ==
    LET order == DeclaredOrder(plugin)
        first == CHOOSE n \in 1..Len(order) :
                    /\ order[n] \in Offending(i)
                    /\ \A m \in 1..(n - 1) : order[m] \notin Offending(i)
    IN  order[first]

\* The error texts with which the handlers name a parameter.
Names(msg, k) ==
    msg \in {k \o " is required", k \o " parameter is required",
             k \o " must be a string", k \o " must be an object"}

\* C12: when a request violates the constraints of more than one declared
\* parameter, the failure envelope names exactly one parameter: the first
\* offending one in declaration order.
C12_FirstOffendingNamed ==
    \A i \in Invocations :
        (Exited(i) /\ RunsAction(i) /\ token /\ stdin[i].kind \in {"empty", "object"}
            /\ Cardinality(Offending(i)) > 1)
            => /\ Len(stdout[i]) = 1
               /\ IsFailure(stdout[i][1])
               /\ \A k \in DOMAIN Inputs(i) :
                     Names(stdout[i][1].error, k) <=> k = FirstOffending(i)

\* The optional declared parameters that the request leaves out and whose
\* value the handler passes on, under the parameter's name, in the request it
\* sends to its collaborator.
AbsentOptional(i) ==
    {k \in DOMAIN Inputs(i) \cap DOMAIN contacted[i][1] :
        ~Inputs(i)[k].required /\ k \notin DOMAIN Request(i)}

\* C13: for an optional parameter absent from the request the handler uses
\* exactly the declared default, and no value ("") where none is declared.
C13_DeclaredDefaultUsed ==
    \A i \in Invocations :
        (RunsAction(i) /\ stdin[i].kind \in {"empty", "object"} /\ contacted[i] # <<>>)
            => \A k \in AbsentOptional(i) :
                  contacted[i][1][k] = (IF Inputs(i)[k].hasDef THEN Inputs(i)[k].def.s ELSE "")

\* C14: whenever the collaborator a handler called has failed (non-zero exit,
\* error status, or unreachable), the envelope written has an error field.
C14_CollaboratorFailureHasError ==
    \A i \in Invocations :
        (Exited(i) /\ RunsAction(i) /\ contacted[i] # <<>> /\ world # "ok")
            => (Len(stdout[i]) = 1 /\ IsFailure(stdout[i][1]))

\* The value of each valid expression of the requests under the usual
\* operator precedence, in thousandths.
ValidExpressions == {"2 + 2 * 3", "2 + 2", "9 - 7 % 4 * 2", "1 / 8"}
ExactValue(expr) ==
    CASE expr = "2 + 2 * 3" -> Float(8)
      [] expr = "2 + 2" -> Float(4)
      [] expr = "9 - 7 % 4 * 2" -> Float(3)
      [] expr = "1 / 8" -> Float(1) \div 8

\* A calculate request with a valid expression has been answered.
Calculated(i) ==
    /\ Exited(i) /\ plugin = "calculator" /\ RunsAction(i)
    /\ stdin[i].kind = "object"
    /\ "expression" \in DOMAIN Request(i)
    /\ Request(i)["expression"].s \in ValidExpressions

\* The decimal places the request asks for: the declared default unless it
\* carries a number.
Places(i) ==
    IF "precision" \notin DOMAIN Request(i) \/ Request(i)["precision"].t # "number"
    THEN Inputs(i)["precision"].def.n
    ELSE IF Request(i)["precision"].n < 0 THEN 0 ELSE Request(i)["precision"].n

ExecuteForm(i) ==
    Len(argv[i]) = 2 /\ argv[i][1] = "execute" /\ argv[i][2] \in Registered(plugin)

\* C17: invoked as `execute <action>`, the plugin runs the handler of <action>
\* on the request and writes its result; the calculator invoked as
\* `execute calculate` with {"expression": "2 + 2", "precision": 0} writes 4.
C17_ExecuteFormRunsAction ==
    \A i \in Invocations :
        (Exited(i) /\ ExecuteForm(i) /\ stdin[i].kind = "object")
            => /\ handlerCalls[i] = 1
               /\ Len(stdout[i]) = 1
               /\ ((plugin = "calculator"
                      /\ Request(i) = [expression |-> JStr("2 + 2"), precision |-> JNum(0)])
                    => stdout[i][1] = [result |-> Float(4), expression |-> "2 + 2"])

\* The envelope invocation i writes when it runs with no other invocation.
Alone(i) ==
    LET d == DecodeFor(plugin, stdin[i])
        h == Execute(plugin, action(i), d.params, token)
    IN  IF ~d.ok THEN d.result
        ELSE IF h.kind # "call" THEN h.env
        ELSE IF WritesOutfile(i)
        THEN [StatusCode |-> invokeOutput(world).StatusCode,
              response |-> Payload(h.req.function)]
        ELSE Respond(plugin, world)

\* C15: two concurrent invocations do not interfere: each writes the envelope
\* it writes when run alone, and once both have exited no file is left behind
\* that a lone run does not leave.  (The file plugin is left out: its requests
\* name the file they share.)
C15_NoInterference ==
    /\ \A i \in Invocations :
          (Exited(i) /\ RunsAction(i) /\ plugin # "file" /\ exitCode[i] = 0)
              => stdout[i] = IF Encodable(Alone(i)) THEN <<Alone(i)>> ELSE <<>>
    /\ ((\A i \in Invocations : Exited(i)) /\ plugin # "file" /\ world = "ok")
          => \A f \in Paths : ~files[f].exists

\* stdout holds JSON only
IsJSON(out) == \A n \in 1..Len(out) : "raw" \notin DOMAIN out[n]

\* C18: every executable answers the metadata mode with the plugin's Metadata
\* as one JSON object whose name is the plugin's name, and exits 0; no usage
\* banner or other text reaches stdout.
C18_MetadataIsJSON ==
    \A i \in Invocations :
        (Exited(i) /\ argv[i] = <<"metadata">>)
            => /\ exitCode[i] = 0
               /\ IsJSON(stdout[i])
               /\ Len(stdout[i]) = 1
               /\ stdout[i][1] = GetMetadata(plugin)
               /\ stdout[i][1].name = plugin

\* C19: in the ansible ad_hoc action every parameter value reaches the
\* program as one whole command-line argument of the single command that is
\* run.
C19_ParametersAreSingleArguments ==
    \A i \in Invocations :
        (plugin = "ansible" /\ RunsAction(i) /\ stdin[i].kind = "object"
           /\ contacted[i] # <<>>)
            => LET cmds == Shell(contacted[i][1].script)
               IN  /\ Len(cmds) = 1
                   /\ \A k \in DOMAIN Request(i) \cap DOMAIN Inputs(i) :
                         \E n \in 1..Len(cmds[1]) : cmds[1][n] = Request(i)[k].s

\* The file plugin's handler of invocation i runs in this step.
FileStep(i, name) ==
    /\ plugin = "file" /\ argv[i] = <<name>>
    /\ stdin[i].kind = "object"
    /\ pc[i] = "execute" /\ pc'[i] = "encode"

Succeeds(i) == "error" \notin DOMAIN result'[i]

\* Invocation j has written successfully and has left the handler.
HasWritten(j) ==
    /\ plugin = "file" /\ argv[j] = <<"write">>
    /\ pc[j] \in {"encode", "exited"}
    /\ "error" \notin DOMAIN result[j]

\* Invocation i, which has read a file, writes its envelope in this step.
EncodeStep(i) ==
    /\ plugin = "file" /\ argv[i] = <<"read">>
    /\ pc[i] = "encode" /\ pc'[i] = "exited"
    /\ "content" \in DOMAIN result[i]

\* C20: read returns exactly the current content of the file and its length:
\* the handler takes them from the file and the envelope written carries
\* them; a successful write leaves c (append false) or the previous content
\* followed by c (append true); so a read after a successful write with
\* append false returns c and its length.
C20_ReadReturnsWhatWriteLeft ==
    [][\A i \in Invocations :
          /\ (FileStep(i, "read") /\ Succeeds(i))
                => LET path == Request(i)["path"].s
                   IN  result'[i] = [content |-> files[path].data,
                                     size |-> Len(files[path].data)]
          /\ EncodeStep(i) => stdout'[i] = <<result[i]>>
          /\ (FileStep(i, "write") /\ Succeeds(i))
                => LET path == Request(i)["path"].s
                       c == Request(i)["content"].s
                   IN  /\ files'[path].exists
                       /\ files'[path].data =
                            IF "append" \in DOMAIN Request(i) /\ Request(i)["append"].b
                            THEN files[path].data \o c ELSE c
          /\ \A j \in Invocations :
                (FileStep(i, "read") /\ HasWritten(j)
                   /\ "path" \in DOMAIN Request(i)
                   /\ Request(j)["path"] = Request(i)["path"]
                   /\ "append" \notin DOMAIN Request(j))
                    => result'[i] = [content |-> Request(j)["content"].s,
                                     size |-> Len(Request(j)["content"].s)]
      ]_vars

\* The expressions of the requests that hold something other than numeric
\* literals, + - * / %, unary + and -, parentheses, pi and e: a function call,
\* another identifier, a string literal, a comparison, a shift, a bitwise
\* operator.
OtherExpressions == {"sqrt(4)", "x + 1", "\"a\" + 1", "2 < 3", "1 << 2", "6 & 3"}

\* A calculate request carrying the expression expr has been answered.
Answered(i, expr) ==
    /\ Exited(i) /\ plugin = "calculator" /\ RunsAction(i)
    /\ stdin[i].kind = "object"
    /\ "expression" \in DOMAIN Request(i)
    /\ Request(i)["expression"] = JStr(expr)

\* C21: calculate evaluates numeric literals, + - * / %, unary + and -,
\* parentheses, pi and e ("-(2 + pi)" gives -5.14), and an expression holding
\* anything else is answered by one envelope with error and without result.
C21_OnlyArithmeticEvaluated ==
    \A i \in Invocations :
        /\ Answered(i, "-(2 + pi)") =>
               stdout[i] = <<[result |-> 0 - 5140, expression |-> "-(2 + pi)"]>>
        /\ \A expr \in OtherExpressions :
               Answered(i, expr) =>
                   /\ Len(stdout[i]) = 1
                   /\ "error" \in DOMAIN stdout[i][1]
                   /\ "result" \notin DOMAIN stdout[i][1]

\* C21 witness: a call has been refused as an unsupported expression type and
\* a string literal as an unsupported literal, in two invocations.
C21_Witness ==
    /\ Answered(1, "sqrt(4)")
    /\ stdout[1] = <<[error |-> "Invalid expression: unsupported expression type: *ast.CallExpr",
                      expression |-> "sqrt(4)"]>>
    /\ Answered(2, "\"a\" + 1")
    /\ stdout[2] = <<[error |-> "Invalid expression: unsupported literal type: STRING",
                      expression |-> "\"a\" + 1"]>>

\* C22: every calculate invocation ends with one envelope on stdout that holds
\* an error or a finite numeric result, whatever the expression and the
\* precision.
C22_FiniteResultOrError ==
    \A i \in Invocations :
        (Exited(i) /\ plugin = "calculator" /\ RunsAction(i)) =>
            /\ Len(stdout[i]) = 1
            /\ \/ "error" \in DOMAIN stdout[i][1]
               \/ /\ "result" \in DOMAIN stdout[i][1]
                  /\ IsFinite(stdout[i][1].result)

\* C23: when the handler of copy or move returns a failure envelope, the
\* filesystem is as it was before the handler ran: no directory created, no
\* destination created or truncated, the source intact.
C23_FailedCopyOrMoveChangesNothing ==
    [][\A i \in Invocations :
          ((FileStep(i, "copy") \/ FileStep(i, "move")) /\ IsFailure(result'[i]))
              => files' = files
      ]_vars

\* C24: runKubectlCommand does not deadlock with kubectl: whatever kubectl
\* writes to its stdout and stderr, in whatever order, the function
\* eventually returns.
C24_KubectlCommandReturns == <>(cmd = "returned")

\* A step of invocation i.
Step(i) ==
    \/ ActionRequired(i) \/ Serve(i) \/ Usage(i) \/ Start(i) \/ Discover(i)
    \/ Default(i) \/ ReadStdin(i) \/ DecodeInput(i) \/ ExecuteReturns(i)
    \/ ExecutePanics(i) \/ ExecuteCalls(i) \/ CollaboratorAnswers(i)
    \/ ReadResponse(i) \/ RemoveResponse(i) \/ Encode(i)

\* C25: in metadata and actions modes the plugin never waits for stdin: until
\* it has exited it always has a step to take, also when stdin stays open and
\* never reaches its end, so it writes its output and terminates.
C25_DiscoveryNeverWaitsForStdin ==
    \A i \in Invocations :
        (SpeaksJSON /\ Discovery(i)) => (Exited(i) \/ ENABLED Step(i))

\* C26: for a registered action, a stdin of whitespace only gives the same
\* envelope as an empty stdin.
C26_WhitespaceIsEmpty ==
    \A i, j \in Invocations :
        (Exited(i) /\ Exited(j) /\ RunsAction(i) /\ argv[i] = argv[j]
            /\ stdin[i] = Blank /\ stdin[j] = Empty)
            => stdout[i] = stdout[j]

\* The temporary files the handlers create or have created.
TempFiles == {LambdaResponseFile}

\* The handler of invocation i has returned, if it ran at all.
Returned(i) == pc[i] \in {"encode", "exited"}

\* C27: once the handlers have returned, on whatever path, no temporary file
\* that an action created or had created is left.
C27_TemporaryFilesRemoved ==
    (\A i \in Invocations : Returned(i)) => \A f \in TempFiles : ~files[f].exists
====
